---------------------------- MODULE Spec2Model ----------------------------
(***************************************************************************)
(* A model of TM74HC595.py, a MicroPython driver for 7-segment display     *)
(* modules built around 74HC595 shift registers.                           *)
(*                                                                         *)
(* Characters are one-character strings, texts are sequences of            *)
(* characters, segment bytes and digit masks are integers.  The three      *)
(* output lines are observed through `wire`, the line writes of the most   *)
(* recent _update_displays call, and `frames`, the (segments, digits)      *)
(* pairs handed to _update_displays since the current public call began.   *)
(***************************************************************************)
EXTENDS Integers, Sequences, FiniteSets, TLC

VARIABLES
    displays,        \* Display._displays : tuple of digit masks
    font,            \* Display._font     : character -> segment byte
    UNDEF,           \* module constant UNDEF: fallback character or None
    scroll_encoded,  \* Display._scroll_encoded : [kind, data] or None
    scroll_cursor,   \* Display._scroll_cursor
    pc,              \* where the caller / the running call stands
    args,            \* arguments of the running (or last) call
    locals,          \* local variables of the running call
    ret,             \* outcome of the last finished call
    frames,          \* _update_displays calls made by the running call
    wire,            \* line writes of the most recent _update_displays call
    nwrites,         \* number of line writes made by the running call
    now,             \* last reading of time.ticks_ms()
    sweep,           \* the caller's record of a `while scroll(): pass` sweep
    reversal         \* the caller's record of a sweep followed by its reversal

vars == <<displays, font, UNDEF, scroll_encoded, scroll_cursor, pc, args,
          locals, ret, frames, wire, nwrites, now, sweep, reversal>>

-----------------------------------------------------------------------------
(* Bounds of the model.                                                    *)

MaxLen == 3          \* longest text handed to encode
MaxDigits == 3       \* largest digit count of a generated display
MaxPasses == 2       \* refresh passes a clock that stands still is allowed
MaxStart == 2        \* largest |start| handed to scroll_init
MaxAmount == 2       \* largest |amount| handed to scroll
MaxPad == 1          \* largest integer padding handed to encode
MaxPos == 2          \* largest |pos| handed to print
ClockSteps == 6      \* the clock wraps to 0 after ClockSteps half seconds
MaxMsgLen == 4       \* longest pre-encoded message handed to scroll_init
MaxCount == 2        \* largest count handed to flash
MaxQuarters == 26    \* largest |n| handed to vbars, in quarters
MaxLoopPasses == 6   \* passes after which a refresh loop is followed no further

-----------------------------------------------------------------------------
(* Module-level constants of the driver.                                   *)

LIT == 0
UNLIT == 1
SEGMENT8 == "."
BLANK == " "
None == "None"
Marker == "#"
PointBit == 128

\* '‾' and '°' are written OVERLINE and DEGREE
TINKER_FONT ==
    [c \in {"0"} |-> 63] @@
    ("1" :> 6) @@ ("2" :> 91) @@ ("3" :> 79) @@ ("4" :> 102) @@
    ("5" :> 109) @@ ("6" :> 125) @@ ("7" :> 39) @@ ("8" :> 127) @@ ("9" :> 111) @@
    ("A" :> 119) @@ ("B" :> 127) @@ ("C" :> 57) @@ ("D" :> 63) @@ ("E" :> 121) @@
    ("F" :> 113) @@ ("G" :> 61) @@ ("H" :> 118) @@ ("I" :> 6) @@ ("J" :> 30) @@
    ("K" :> 117) @@ ("L" :> 56) @@ ("M" :> 85) @@ ("N" :> 55) @@ ("O" :> 63) @@
    ("P" :> 115) @@ ("Q" :> 103) @@ ("R" :> 51) @@ ("S" :> 109) @@ ("T" :> 7) @@
    ("U" :> 62) @@ ("V" :> 42) @@ ("W" :> 106) @@ ("X" :> 118) @@ ("Y" :> 110) @@
    ("Z" :> 27) @@
    ("b" :> 124) @@ ("c" :> 88) @@ ("d" :> 94) @@ ("h" :> 116) @@ ("i" :> 4) @@
    ("j" :> 12) @@ ("l" :> 48) @@ ("n" :> 84) @@ ("o" :> 92) @@ ("r" :> 80) @@
    ("t" :> 120) @@ ("u" :> 28) @@ ("v" :> 20) @@ ("w" :> 29) @@
    (" " :> 0) @@ ("_" :> 8) @@ ("-" :> 64) @@ ("OVERLINE" :> 1) @@ ("^" :> 1) @@
    ("(" :> 57) @@ (")" :> 15) @@ ("[" :> 57) @@ ("]" :> 15) @@
    ("\"" :> 34) @@ ("`" :> 2) @@ ("'" :> 32) @@
    ("?" :> 83) @@ ("!" :> 130) @@ ("DEGREE" :> 99)

-----------------------------------------------------------------------------
(* Integer helpers: Python's & and | on non-negative integers, and the     *)
(* test `x & m` for a one-bit m, which on a viper uint sees the two's      *)
(* complement bits of a negative x.                                        *)

RECURSIVE BitAnd(_, _)
BitAnd(a, b) ==
    IF a = 0 \/ b = 0 THEN 0
    ELSE (a % 2) * (b % 2) + 2 * BitAnd(a \div 2, b \div 2)

RECURSIVE BitOr(_, _)
BitOr(a, b) ==
    IF a = 0 THEN b
    ELSE IF b = 0 THEN a
    ELSE (IF a % 2 = 1 \/ b % 2 = 1 THEN 1 ELSE 0) + 2 * BitOr(a \div 2, b \div 2)

TestBit(x, m) == (x \div m) % 2 = 1

-----------------------------------------------------------------------------
(* Display._update_displays: the serial frame.                             *)

RECURSIVE ShiftSegments(_, _)
ShiftSegments(b, m) ==
    IF m = 0 THEN <<>>
    ELSE << <<"dio", IF TestBit(b, m) THEN LIT ELSE UNLIT>>,
            <<"sclk", 0>>, <<"sclk", 1>> >> \o ShiftSegments(b, m \div 2)

RECURSIVE ShiftDigitsSwapped(_, _)
ShiftDigitsSwapped(d, m) ==
    IF m = 0 THEN <<>>
    ELSE << <<"dio", IF TestBit(d, m) THEN LIT ELSE UNLIT>>,
            <<"sclk", 0>>, <<"sclk", 1>> >> \o ShiftDigitsSwapped(d, m \div 2)

RECURSIVE ShiftDigits(_, _)
ShiftDigits(d, m) ==
    IF m = 0 THEN <<>>
    ELSE << <<"dio", IF TestBit(d, m) THEN 1 ELSE 0>>,
            <<"sclk", 0>>, <<"sclk", 1>> >> \o ShiftDigits(d, m \div 2)

UpdateDisplaysWire(b, d) ==
    ShiftSegments(b, 128) \o ShiftDigits(d, 128) \o << <<"rclk", 0>>, <<"rclk", 1>> >>

\* the number of line writes a list of _update_displays calls makes
RECURSIVE WritesOf(_)
WritesOf(calls) ==
    IF calls = <<>> THEN 0
    ELSE Len(UpdateDisplaysWire(calls[1][1], calls[1][2])) + WritesOf(Tail(calls))

\* the effect of a list of _update_displays calls on the observers
Emit(calls) ==
    /\ frames' = frames \o calls
    /\ wire' = IF calls = <<>> THEN wire
               ELSE UpdateDisplaysWire(calls[Len(calls)][1], calls[Len(calls)][2])
    /\ nwrites' = nwrites + WritesOf(calls)

-----------------------------------------------------------------------------
(* ubinascii.unhexlify(s)[0] for the two-character slice of an escape.     *)

HexVal ==
    ("0" :> 0) @@ ("1" :> 1) @@ ("2" :> 2) @@ ("3" :> 3) @@ ("4" :> 4) @@
    ("5" :> 5) @@ ("6" :> 6) @@ ("7" :> 7) @@ ("8" :> 8) @@ ("9" :> 9) @@
    ("a" :> 10) @@ ("b" :> 11) @@ ("c" :> 12) @@ ("d" :> 13) @@ ("e" :> 14) @@
    ("f" :> 15) @@
    ("A" :> 10) @@ ("B" :> 11) @@ ("C" :> 12) @@ ("D" :> 13) @@ ("E" :> 14) @@
    ("F" :> 15)

IsHexPair(s) == Len(s) = 2 /\ s[1] \in DOMAIN HexVal /\ s[2] \in DOMAIN HexVal

\* raises on an empty, odd-length or non-hexadecimal slice
UnhexlifyFirst(s) ==
    IF IsHexPair(s)
    THEN [raised |-> FALSE, value |-> 16 * HexVal[s[1]] + HexVal[s[2]]]
    ELSE [raised |-> TRUE, value |-> 0]

\* Python's text[lo:hi] for 0 <= lo <= hi, on a 1-based sequence
Slice(text, lo, hi) ==
    LET h == IF hi < Len(text) THEN hi ELSE Len(text)
    IN  IF lo >= h THEN <<>> ELSE [k \in 1..(h - lo) |-> text[lo + k]]

-----------------------------------------------------------------------------
(* Display.encode.                                                         *)

Blanks(n) == [k \in 1..n |-> BLANK]

\* padding is [auto |-> TRUE] for Python's True, else [auto |-> FALSE, n |-> int]
PadText(text, padding, disp) ==
    LET p == IF padding.auto THEN Len(disp) ELSE padding.n
    IN  IF p > 0 THEN Blanks(p) \o text \o Blanks(p) ELSE text

\* result[-1] |= 0b10000000, on a non-empty result
SetPointWrongBit(result) ==
    [result EXCEPT ![Len(result)] = BitOr(@, 64)]

SetPoint(result) ==
    [result EXCEPT ![Len(result)] = BitOr(@, PointBit)]

\* the body of the try block for the character at (0-based) index i:
\* the values of i and result when it ends, and whether it ended by raising
EncodeTry(text, i, result, fnt) ==
    LET c == text[i + 1]
        Ok(j, r) == [i |-> j, result |-> r, raised |-> FALSE]
        Raise(j, r) == [i |-> j, result |-> r, raised |-> TRUE]
    IN  IF c = SEGMENT8 THEN
            IF i # 0
            THEN IF result = <<>> THEN Raise(i, result) ELSE Ok(i, SetPoint(result))
            ELSE Ok(i, result)
        ELSE IF c = Marker THEN
            IF i + 1 >= Len(text) THEN Raise(i, result)
            ELSE IF text[i + 2] = Marker THEN
                IF Marker \in DOMAIN fnt
                THEN Ok(i + 1, Append(result, fnt[Marker]))
                ELSE Raise(i + 1, result)
            ELSE
                LET h == UnhexlifyFirst(Slice(text, i + 1, i + 3))
                IN  IF h.raised THEN Raise(i + 2, result)
                    ELSE Ok(i + 2, Append(result, h.value))
        ELSE IF c = "?" /\ "?" \in DOMAIN fnt /\ fnt["?"] = 83 /\ SEGMENT8 = "." THEN
            IF i # 0 /\ result = <<>> THEN Raise(i, result)
            ELSE Ok(i, Append(IF i # 0 THEN SetPoint(result) ELSE result, fnt[c]))
        ELSE
            IF c \in DOMAIN fnt THEN Ok(i, Append(result, fnt[c]))
            ELSE Raise(i, result)

\* the while loop from index i on; the except clause appends the fallback
\* glyph when UNDEF is not None, and a failing lookup of the fallback itself
\* leaves encode
RECURSIVE EncodeLoop(_, _, _, _, _)
EncodeLoop(text, i, result, fnt, undef) ==
    IF i >= Len(text) THEN [raised |-> FALSE, value |-> result]
    ELSE LET t == EncodeTry(text, i, result, fnt)
         IN  IF ~t.raised THEN EncodeLoop(text, t.i + 1, t.result, fnt, undef)
             ELSE IF undef = None THEN EncodeLoop(text, t.i + 1, t.result, fnt, undef)
             ELSE IF undef \in DOMAIN fnt
                  THEN EncodeLoop(text, t.i + 1, Append(t.result, fnt[undef]), fnt, undef)
                  ELSE [raised |-> TRUE, value |-> <<>>]

Encode(text, padding, fnt, undef, disp) ==
    EncodeLoop(PadText(text, padding, disp), 0, <<>>, fnt, undef)

NoPadding == [auto |-> FALSE, n |-> 0]

-----------------------------------------------------------------------------
(* Display.__init__ and the configurations the model starts from.          *)

RECURSIVE Pow2(_)
Pow2(n) == IF n = 0 THEN 1 ELSE 2 * Pow2(n - 1)

\* displays given as an integer digit count
DisplaysOfCount(n) == [i \in 1..n |-> Pow2(n - i)]

\* displays given as an integer, or as an explicit sequence of masks
DisplayConfigs ==
    {DisplaysOfCount(n) : n \in 1..MaxDigits} \cup {<<8, 4, 2, 1>>, <<1, 2, 4, 8>>}

\* caller-supplied fonts: the built-in one with a glyph for the marker, and
\* a small one with neither '_' nor the built-in '?' shape
HASH_FONT == ("#" :> 73) @@ TINKER_FONT
PLAIN_FONT == (" " :> 0) @@ ("A" :> 119) @@ ("3" :> 79) @@ ("#" :> 73) @@ ("?" :> 211)

Fonts == {TINKER_FONT, HASH_FONT, PLAIN_FONT}

NoScroll == [kind |-> "None", data |-> <<>>]
NoCall == [op |-> "none"]
NoLocals == [none |-> TRUE]
NoSweep == [active |-> FALSE]
NoReversal == [phase |-> "off", rendered |-> <<>>, results |-> <<>>]

\* a constructed driver, before any call
Constructed(disp, fnt, undef) ==
    /\ displays = disp
    /\ font = fnt
    /\ UNDEF = undef
    /\ scroll_encoded = NoScroll
    /\ scroll_cursor = 0
    /\ pc = "idle"
    /\ locals = NoLocals
    /\ ret = NoCall
    /\ frames = <<>>
    /\ wire = <<>>
    /\ nwrites = 0
    /\ now = 0
    /\ sweep = NoSweep
    /\ reversal = NoReversal

\* the caller takes the outcome of a finished call and goes on
CallerResumes ==
    /\ pc = "returned"
    /\ pc' = "idle"
    /\ args' = NoCall
    /\ ret' = NoCall
    /\ frames' = <<>>
    /\ wire' = <<>>
    /\ nwrites' = 0
    /\ UNCHANGED <<displays, font, UNDEF, scroll_encoded, scroll_cursor, locals,
                   now, sweep, reversal>>

-----------------------------------------------------------------------------
(* SpecTransmit: one _update_displays call on every segment byte and mask. *)

InitTransmit ==
    /\ Constructed(DisplaysOfCount(1), TINKER_FONT, "_")
    /\ \E b \in 0..255, d \in -1..255 :
          args = [op |-> "_update_displays", b |-> b, d |-> d]

UpdateDisplaysCall ==
    /\ pc = "idle"
    /\ args.op = "_update_displays"
    /\ Emit(<< <<args.b, args.d>> >>)
    /\ pc' = "returned"
    /\ UNCHANGED <<displays, font, UNDEF, scroll_encoded, scroll_cursor, args,
                   locals, ret, now, sweep, reversal>>

NextTransmit == UpdateDisplaysCall

SpecTransmit == InitTransmit /\ [][NextTransmit]_vars

-----------------------------------------------------------------------------
(* SpecEncode: one encode call on every short text over EncodeAlphabet.    *)

\* a font character and hex digit, a second hex digit, the built-in '?',
\* the point, the marker, a character in no font and no hex digit, a blank
EncodeAlphabet == {"A", "3", "?", ".", "#", "g", " "}

TextsOver(alphabet, n) == UNION {[1..k -> alphabet] : k \in 0..n}

Paddings == {[auto |-> TRUE]} \cup {[auto |-> FALSE, n |-> k] : k \in 0..MaxPad}

InitEncode ==
    \E disp \in {DisplaysOfCount(n) : n \in 1..MaxDigits}, fnt \in Fonts,
       undef \in {"_", None} :
        /\ Constructed(disp, fnt, undef)
        /\ \E text \in TextsOver(EncodeAlphabet, MaxLen), padding \in Paddings :
              args = [op |-> "encode", text |-> text, padding |-> padding]

EncodeCall ==
    /\ pc = "idle"
    /\ args.op = "encode"
    /\ ret' = Encode(args.text, args.padding, font, UNDEF, displays)
    /\ pc' = "returned"
    /\ UNCHANGED <<displays, font, UNDEF, scroll_encoded, scroll_cursor, args,
                   locals, frames, wire, nwrites, now, sweep, reversal>>

NextEncode == EncodeCall

SpecEncode == InitEncode /\ [][NextEncode]_vars

-----------------------------------------------------------------------------
(* Properties of _update_displays (SpecTransmit).                          *)

TransmitDone == pc = "returned" /\ args.op = "_update_displays"

\* bit k of a segment byte; bit k of a mask, all bits of -1 being set
SegBit(b, k) == (b \div Pow2(k)) % 2
DigBit(d, k) == IF d = -1 THEN 1 ELSE (d \div Pow2(k)) % 2

\* the n-th line write (n in 1..50) of the frame for segments b and mask d
FrameWrite(b, d, n) ==
    IF n = 49 THEN <<"rclk", 0>>
    ELSE IF n = 50 THEN <<"rclk", 1>>
    ELSE LET slot == (n - 1) \div 3
             bit == 7 - (slot % 8)
         IN  IF (n - 1) % 3 = 1 THEN <<"sclk", 0>>
             ELSE IF (n - 1) % 3 = 2 THEN <<"sclk", 1>>
             ELSE IF slot < 8
                  THEN <<"dio", IF SegBit(b, bit) = 1 THEN LIT ELSE UNLIT>>
                  ELSE <<"dio", DigBit(d, bit)>>

\* C1: one _update_displays(b, d) call writes exactly: for bits 7..0 of b the
\* data line (LIT if set, else UNLIT) then shift-clock 0 then 1; for bits 7..0
\* of d the data line (1 if set, else 0, never polarity-swapped) then
\* shift-clock 0 then 1; then latch-clock 0 then 1 once.  That is 16 shift
\* pulses and one latch pulse, and a mask of -1 sends eight 1 bits.
C1_FrameProtocol ==
    TransmitDone =>
        /\ wire = [n \in 1..50 |-> FrameWrite(args.b, args.d, n)]
        /\ nwrites = 50
        /\ frames = << <<args.b, args.d>> >>

\* '!' (0x82) sent to all digits: segment bits 7 and 1 at LIT, eight 1 bits
C1_Witness ==
    /\ TransmitDone
    /\ args.b = 130 /\ args.d = -1
    /\ wire[1] = <<"dio", LIT>> /\ wire[4] = <<"dio", UNLIT>>
    /\ \A s \in 8..15 : wire[3 * s + 1] = <<"dio", 1>>
    /\ wire[50] = <<"rclk", 1>>

-----------------------------------------------------------------------------
(* Properties of encode (SpecEncode).                                      *)

EncodeDone == pc = "returned" /\ args.op = "encode"

PadCount == IF args.padding.auto THEN Len(displays) ELSE args.padding.n

\* the k-th character (from 1) of the padded text of the call
PaddedChar(k) ==
    IF k <= PadCount \/ k > PadCount + Len(args.text) THEN BLANK
    ELSE args.text[k - PadCount]

PaddedLen == Len(args.text) + 2 * PadCount

\* a marker that is followed neither by a marker nor by two hex digits,
\* scanning the text from position k (from 1) on
RECURSIVE MalformedFrom(_, _)
MalformedFrom(text, k) ==
    IF k > Len(text) THEN FALSE
    ELSE IF text[k] # Marker THEN MalformedFrom(text, k + 1)
    ELSE IF k + 1 <= Len(text) /\ text[k + 1] = Marker THEN MalformedFrom(text, k + 2)
    ELSE IF k + 2 <= Len(text) /\ text[k + 1] \in DOMAIN HexVal
                               /\ text[k + 2] \in DOMAIN HexVal
         THEN MalformedFrom(text, k + 3)
    ELSE TRUE

\* C3: for a text with a character that is absent from the font (and is not
\* the point or the marker): with a fallback configured encode does not
\* raise and emits one fallback glyph per such character; with UNDEF None
\* encode raises instead of dropping the character.
C3_UndefinedCharacter ==
    (EncodeDone /\ \E k \in 1..Len(args.text) :
                      args.text[k] \notin (DOMAIN font \cup {SEGMENT8, Marker})) =>
        /\ (UNDEF # None /\ UNDEF \in DOMAIN font) =>
              /\ ~ret.raised
              /\ (\A k \in 1..Len(args.text) : args.text[k] \notin {SEGMENT8, Marker, "?"}) =>
                    ret.value = [k \in 1..PaddedLen |->
                                    IF PaddedChar(k) \in DOMAIN font
                                    THEN font[PaddedChar(k)] ELSE font[UNDEF]]
        /\ UNDEF = None => ret.raised

\* C4: encode of a text with a malformed literal escape ends in a propagated
\* failure, never in an encoded message, whatever the fallback setting.
C4_MalformedEscapeRaises ==
    (EncodeDone /\ MalformedFrom([k \in 1..PaddedLen |-> PaddedChar(k)], 1)) =>
        ret.raised

\* C5: a point never adds an element: encode(c + ".") is encode(c) with bit 7
\* set on its single byte, and a text made only of points encodes to the
\* empty sequence.
C5_PointMerges ==
    (EncodeDone /\ PadCount = 0) =>
        /\ (args.text # <<>> /\ \A k \in 1..Len(args.text) : args.text[k] = SEGMENT8) =>
              (~ret.raised /\ ret.value = <<>>)
        /\ (Len(args.text) = 2 /\ args.text[2] = SEGMENT8
              /\ args.text[1] \in DOMAIN font \ {Marker}) =>
              (~ret.raised /\ ret.value = <<BitOr(font[args.text[1]], 128)>>)

\* C6: encode("##") returns exactly one element, the font's glyph for '#',
\* with the built-in font as well as with a caller-supplied one.
C6_SelfEscape ==
    (EncodeDone /\ PadCount = 0 /\ args.text = <<"#", "#">>) =>
        /\ ~ret.raised
        /\ Marker \in DOMAIN font
        /\ ret.value = <<font[Marker]>>

PlainText ==
    \A k \in 1..Len(args.text) : args.text[k] \in DOMAIN font \ {SEGMENT8, Marker}

\* C7 as stated: for a text of font characters other than the point and the
\* marker and padding p >= 0, the result has length len(text) + 2p and its
\* k-th element is the font entry of the k-th character of the padded text.
C7_Original ==
    (EncodeDone /\ PlainText) =>
        /\ ~ret.raised
        /\ ret.value = [k \in 1..PaddedLen |-> font[PaddedChar(k)]]

\* the built-in '?' shape puts its dot on the digit before it
QuestionDot(k) == k < PaddedLen /\ PaddedChar(k + 1) = "?" /\ font["?"] = 83

\* C7 (amended): for a text of font characters other than the point and the
\* marker and padding p >= 0, the result has length len(text) + 2p and its
\* k-th element is the font entry of the k-th character of the padded text,
\* with bit 7 set in addition when the next character is '?' and the font's
\* '?' is 0x53.
C7_PlainTextEncoding ==
    (EncodeDone /\ PlainText) =>
        /\ ~ret.raised
        /\ Len(ret.value) = PaddedLen
        /\ \A k \in 1..PaddedLen :
              ret.value[k] = IF QuestionDot(k) THEN BitOr(font[PaddedChar(k)], 128)
                             ELSE font[PaddedChar(k)]

\* " A? " : the 'A' before the '?' carries the dot, the blanks are plain
C7_Witness ==
    /\ EncodeDone /\ PlainText
    /\ args.text = <<"A", "?">> /\ PadCount = 1
    /\ ret.value = <<0, 247, 83, 0>>

-----------------------------------------------------------------------------
(* time.ticks_ms(): a reading is the previous one advanced by 0, 500 or    *)
(* 1000 milliseconds, wrapping at the period.  `standing` is how many passes the   *)
(* running loop has made; a loop that has made MaxPasses passes sees the   *)
(* clock advance.                                                          *)

TicksPeriod == ClockSteps * 500

ClockReadings(standing) ==
    {(now + k * 500) % TicksPeriod :
        k \in (IF standing < MaxPasses THEN {0, 1, 2} ELSE {1, 2})}

\* the test that ends a refresh loop: the budget is not positive, or it is
\* used up, or the clock reads less than when the loop began
LoopEnds(duration, t0, t) ==
    ~(duration > 0) \/ (t - t0 >= duration) \/ (t < t0)

-----------------------------------------------------------------------------
(* Display.print.  A message is [kind |-> "str" | "tuple" | "list", data]; *)
(* duration is held in milliseconds (duration * 1000); clear is "None",    *)
(* "True" or "False".                                                      *)

\* the digit position of message index i (both from 0)
PrintPositionOffByOne(pos, i, nmsg, ndisp) ==
    IF pos >= 0 THEN pos + i + 1 ELSE ndisp - nmsg + pos + i

PrintPosition(pos, i, nmsg, ndisp) ==
    IF pos >= 0 THEN pos + i ELSE ndisp - nmsg + pos + i + 1

\* whether a pass hands its frames to _update_displays
PassEmitsAtZero(duration) == duration >= 0

PassEmits(duration) == duration > 0

\* one pass of `for i in range(len(msg))` from index i on: the frames
\* (msg[i] & f, mask) of the positions it touches, in order; in forward mode
\* the first position past the last digit ends the pass
RECURSIVE PrintTouchedEarlyExit(_, _, _, _, _)
PrintTouchedEarlyExit(msg, i, pos, disp, f) ==
    IF i >= Len(msg) THEN <<>>
    ELSE LET j == PrintPosition(pos, i, Len(msg), Len(disp))
             rest == PrintTouchedEarlyExit(msg, i + 1, pos, disp, f)
             Touch(mask) == IF mask # 0 THEN << <<BitAnd(msg[i + 1], f), mask>> >>
                            ELSE <<>>
         IN  IF j < 0 \/ j >= Len(disp) THEN <<>>
             ELSE Touch(disp[j + 1]) \o rest

RECURSIVE PrintTouched(_, _, _, _, _)
PrintTouched(msg, i, pos, disp, f) ==
    IF i >= Len(msg) THEN <<>>
    ELSE LET j == PrintPosition(pos, i, Len(msg), Len(disp))
             rest == PrintTouched(msg, i + 1, pos, disp, f)
             Touch(mask) == IF mask # 0 THEN << <<BitAnd(msg[i + 1], f), mask>> >>
                            ELSE <<>>
         IN  IF pos >= 0
             THEN IF j >= Len(disp) THEN <<>>
                  ELSE Touch(disp[j + 1]) \o rest
             ELSE IF j >= 0 /\ j < Len(disp) THEN Touch(disp[j + 1]) \o rest
                  ELSE rest

\* used_displays |= displays over the frames of a pass
RECURSIVE OrMasks(_, _)
OrMasks(used, touched) ==
    IF touched = <<>> THEN used
    ELSE OrMasks(BitOr(used, touched[1][2]), Tail(touched))

\* Display._clear_displays
ClearFrameAll(d) == <<font[BLANK], -1>>

ClearFrame(d) == <<font[BLANK], d>>

PrintMessages ==
    {[kind |-> "str", data |-> t] :
        t \in {<<>>, <<"A">>, <<"Y", "O", "!">>, <<"1", "2", "3", "4", "5">>}}
    \cup {[kind |-> "tuple", data |-> <<119, 124>>]}

PrintDurations == {-500, 0, 1000}

Fades == {<<255>>, <<1, 255>>, <<>>}

\* entry of print(msg, pos, duration, fade, clear): the encoding and the
\* default of clear
PrintEnter(msg, pos, duration, fade, clear) ==
    /\ pc = "idle"
    /\ LET enc == IF msg.kind = "str"
                  THEN Encode(msg.data, NoPadding, font, UNDEF, displays)
                  ELSE [raised |-> FALSE, value |-> msg.data]
       IN  /\ args' = [op |-> "print", msg |-> msg, pos |-> pos,
                       duration |-> duration, fade |-> fade, clear |-> clear]
           /\ frames' = <<>>
           /\ nwrites' = 0
           /\ IF enc.raised
              THEN /\ ret' = [op |-> "print", raised |-> TRUE]
                   /\ pc' = "returned"
                   /\ UNCHANGED locals
              ELSE /\ pc' = "print_for"
                   /\ locals' = [msg |-> enc.value,
                                 clear |-> IF clear = "None" THEN Len(enc.value) > 1
                                           ELSE clear = "True",
                                 used_displays |-> 0, f |-> 0, t0 |-> 0,
                                 passes |-> 0, total |-> 0]
                   /\ UNCHANGED ret
    /\ UNCHANGED <<displays, font, UNDEF, scroll_encoded, scroll_cursor, wire, now, sweep, reversal>>

PrintCall ==
    \E msg \in PrintMessages, pos \in -MaxPos..MaxPos, duration \in PrintDurations,
       fade \in Fades, clear \in {"None", "True", "False"} :
        PrintEnter(msg, pos, duration, fade, clear)

\* `for f in fade`: the next mask, and t0 = time.ticks_ms()
PrintFadeStep ==
    /\ pc = "print_for"
    /\ locals.f < Len(args.fade)
    /\ \E t \in ClockReadings(0) :
          /\ now' = t
          /\ locals' = [locals EXCEPT !.f = @ + 1, !.t0 = t, !.passes = 0]
    /\ pc' = "print_while"
    /\ UNCHANGED <<displays, font, UNDEF, scroll_encoded, scroll_cursor, args, ret,
                   frames, wire, nwrites, sweep, reversal>>

\* one turn of `while True`: the pass over the message, the clock reading
\* and the test that ends the loop
PrintPass ==
    /\ pc = "print_while"
    /\ locals.passes < MaxLoopPasses
    /\ LET touched == PrintTouched(locals.msg, 0, args.pos, displays,
                                   args.fade[locals.f])
       IN  /\ Emit(IF PassEmits(args.duration) THEN touched ELSE <<>>)
           /\ \E t \in ClockReadings(locals.passes + 1) :
                 /\ now' = t
                 /\ locals' = [locals EXCEPT
                                  !.used_displays = OrMasks(@, touched),
                                  !.passes = @ + 1, !.total = @ + 1]
                 /\ pc' = IF LoopEnds(args.duration, locals.t0, t)
                          THEN "print_for" ELSE "print_while"
    /\ UNCHANGED <<displays, font, UNDEF, scroll_encoded, scroll_cursor, args, ret, sweep, reversal>>

\* after the last mask: the clear of the digits the call used, and return
PrintReturn ==
    /\ pc = "print_for"
    /\ locals.f = Len(args.fade)
    /\ Emit(IF locals.clear /\ locals.used_displays # 0
            THEN <<ClearFrame(locals.used_displays)>> ELSE <<>>)
    /\ ret' = [op |-> "print", raised |-> FALSE, msg |-> locals.msg,
               used_displays |-> locals.used_displays, passes |-> locals.total]
    /\ pc' = "returned"
    /\ locals' = NoLocals
    /\ UNCHANGED <<displays, font, UNDEF, scroll_encoded, scroll_cursor, args, now, sweep, reversal>>

InitPrint ==
    \E disp \in DisplayConfigs, fnt \in {TINKER_FONT}, undef \in {"_"} :
        /\ Constructed(disp, fnt, undef)
        /\ args = NoCall

NextPrint == PrintCall \/ PrintFadeStep \/ PrintPass \/ PrintReturn \/ CallerResumes

SpecPrint == InitPrint /\ [][NextPrint]_vars

-----------------------------------------------------------------------------
(* Display.scroll_init and Display.scroll.                                 *)

\* msg.insert(0, font[BLANK]) while the message is shorter than the display
RECURSIVE PadLeft(_, _, _)
PadLeft(data, n, glyph) ==
    IF Len(data) < n THEN PadLeft(<<glyph>> \o data, n, glyph) ELSE data

\* the cursor scroll_init stores
InitialCursor(start, nmsg, ndisp) ==
    IF start >= 0 THEN start ELSE nmsg - ndisp + start + 1

\* the test that decides the value scroll returns
ScrollInRangeStrict(cursor, amount, ndisp, nmsg) ==
    cursor + amount + ndisp < nmsg /\ cursor + amount >= 0

ScrollInRangePositive(cursor, amount, ndisp, nmsg) ==
    cursor + amount + ndisp <= nmsg /\ cursor + amount > 0

ScrollInRange(cursor, amount, ndisp, nmsg) ==
    cursor + amount + ndisp <= nmsg /\ cursor + amount >= 0

\* the cursor scroll stores
AdvancedCursorUnreduced(cursor, amount, nmsg) == cursor + amount

AdvancedCursor(cursor, amount, nmsg) == (cursor + amount) % nmsg

\* one pass of `for i in range(len(self._displays))`
ScrollWindowShifted(data, cursor, ndisp) ==
    [k \in 1..ndisp |->
        <<data[((cursor + k) % Len(data)) + 1], Pow2(ndisp - 1 - (k - 1))>>]

ScrollWindow(data, cursor, ndisp) ==
    [k \in 1..ndisp |->
        <<data[((cursor + (k - 1)) % Len(data)) + 1], Pow2(ndisp - 1 - (k - 1))>>]

\* the caller's `scroll_init(...)` followed by `while scroll(): pass`, as far
\* as it is a run of scroll(+1, duration <= 0) calls up to the first false
SweepAfter(cursor, amount, duration, result) ==
    IF sweep.active /\ amount = 1 /\ ~(duration > 0)
       /\ \A k \in 1..Len(sweep.results) : sweep.results[k]
    THEN [sweep EXCEPT !.visited = Append(@, cursor), !.results = Append(@, result)]
    ELSE NoSweep

\* the caller's forward sweep (scroll(+1) from a cursor in [0, L-D] until it
\* returns false), the one scroll(-1, duration <= 0) call that follows it,
\* and the scroll(-1, duration > 0) calls after that up to the first false,
\* with the cursor each of those was entered with
ReversalBegins(cursor, nmsg, ndisp) ==
    IF 0 <= cursor /\ cursor <= nmsg - ndisp
    THEN [phase |-> "forward", rendered |-> <<>>, results |-> <<>>]
    ELSE NoReversal

ReversalAfter(cursor, amount, duration, result) ==
    IF reversal.phase = "forward" /\ amount = 1
    THEN IF result THEN reversal ELSE [reversal EXCEPT !.phase = "swept"]
    ELSE IF reversal.phase = "swept" /\ amount = -1 /\ ~(duration > 0)
    THEN [reversal EXCEPT !.phase = "reverse"]
    ELSE IF reversal.phase = "reverse" /\ amount = -1 /\ duration > 0
    THEN [phase |-> IF result THEN "reverse" ELSE "done",
          rendered |-> Append(reversal.rendered, cursor),
          results |-> Append(reversal.results, result)]
    ELSE NoReversal

ScrollMessages ==
    {[kind |-> "list", data |-> [i \in 1..n |-> i]] : n \in 0..MaxMsgLen}
    \cup {[kind |-> "tuple", data |-> [i \in 1..n |-> i]] : n \in 0..(MaxDigits - 1)}
    \cup {[kind |-> "str", data |-> <<"A", "b">>]}

ScrollInitEnter(msg, start) ==
    /\ pc = "idle"
    /\ LET enc == IF msg.kind = "str"
                     THEN Encode(msg.data, NoPadding, font, UNDEF, displays)
                     ELSE [raised |-> FALSE, value |-> msg.data]
              kind == IF msg.kind = "str" THEN "tuple" ELSE msg.kind
              \* a tuple has no insert
              fails == enc.raised \/ (Len(enc.value) < Len(displays) /\ kind = "tuple")
              data == PadLeft(enc.value, Len(displays), font[BLANK])
          IN  /\ args' = [op |-> "scroll_init", msg |-> msg, start |-> start]
              /\ IF fails
                 THEN /\ ret' = [op |-> "scroll_init", raised |-> TRUE]
                      /\ sweep' = NoSweep
                      /\ reversal' = NoReversal
                      /\ UNCHANGED <<scroll_encoded, scroll_cursor>>
                 ELSE /\ ret' = [op |-> "scroll_init", raised |-> FALSE]
                      /\ scroll_encoded' = [kind |-> kind, data |-> data]
                      /\ scroll_cursor' = InitialCursor(start, Len(data), Len(displays))
                      /\ sweep' = [active |-> TRUE, start |-> start,
                                   visited |-> <<>>, results |-> <<>>]
                      /\ reversal' = ReversalBegins(
                              InitialCursor(start, Len(data), Len(displays)),
                              Len(data), Len(displays))
    /\ pc' = "returned"
    /\ frames' = <<>>
    /\ nwrites' = 0
    /\ UNCHANGED <<displays, font, UNDEF, locals, wire, now>>

ScrollInitCall ==
    \E msg \in ScrollMessages, start \in -MaxStart..MaxStart : ScrollInitEnter(msg, start)

ScrollDurations == {0, 500}

\* entry of scroll: t0 = time.ticks_ms(); without a stored message the first
\* pass fails on len()
ScrollEnter(amount, duration) ==
    /\ pc = "idle"
    /\ \E t \in ClockReadings(0) :
          /\ args' = [op |-> "scroll", amount |-> amount, duration |-> duration]
          /\ now' = t
          /\ IF scroll_encoded.kind = "None" \/ Len(scroll_encoded.data) = 0
             THEN /\ ret' = [op |-> "scroll", raised |-> TRUE]
                  /\ pc' = "returned"
                  /\ sweep' = NoSweep
                  /\ reversal' = NoReversal
                  /\ UNCHANGED locals
             ELSE /\ pc' = "scroll_while"
                  /\ locals' = [t0 |-> t, passes |-> 0]
                  /\ UNCHANGED <<ret, sweep, reversal>>
    /\ frames' = <<>>
    /\ nwrites' = 0
    /\ UNCHANGED <<displays, font, UNDEF, scroll_encoded, scroll_cursor, wire>>

ScrollCall ==
    \E amount \in -MaxAmount..MaxAmount, duration \in ScrollDurations :
        ScrollEnter(amount, duration)

\* one turn of `while True` in scroll
ScrollPass ==
    /\ pc = "scroll_while"
    /\ locals.passes < MaxLoopPasses
    /\ Emit(IF args.duration > 0
            THEN ScrollWindow(scroll_encoded.data, scroll_cursor, Len(displays))
            ELSE <<>>)
    /\ \E t \in ClockReadings(locals.passes + 1) :
          /\ now' = t
          /\ locals' = [locals EXCEPT !.passes = @ + 1]
          /\ pc' = IF LoopEnds(args.duration, locals.t0, t)
                   THEN "scroll_after" ELSE "scroll_while"
    /\ UNCHANGED <<displays, font, UNDEF, scroll_encoded, scroll_cursor, args, ret, sweep, reversal>>

\* after the loop: self.clear()
ScrollClear ==
    /\ pc = "scroll_after"
    /\ Emit(<<ClearFrame(-1)>>)
    /\ pc' = "scroll_test"
    /\ UNCHANGED <<displays, font, UNDEF, scroll_encoded, scroll_cursor, args, locals,
                   ret, now, sweep, reversal>>

\* after the clear: the returned value and the new cursor
ScrollReturn ==
    /\ pc = "scroll_test"
    /\ LET result == ScrollInRange(scroll_cursor, args.amount, Len(displays),
                                   Len(scroll_encoded.data))
       IN  /\ ret' = [op |-> "scroll", raised |-> FALSE, value |-> result,
                      passes |-> locals.passes]
           /\ sweep' = SweepAfter(scroll_cursor, args.amount, args.duration, result)
           /\ reversal' = ReversalAfter(scroll_cursor, args.amount, args.duration, result)
    /\ scroll_cursor' = AdvancedCursor(scroll_cursor, args.amount, Len(scroll_encoded.data))
    /\ pc' = "returned"
    /\ locals' = NoLocals
    /\ UNCHANGED <<displays, font, UNDEF, scroll_encoded, args, now, frames, wire, nwrites>>

InitScroll ==
    \E disp \in DisplayConfigs, fnt \in {TINKER_FONT}, undef \in {"_"} :
        /\ Constructed(disp, fnt, undef)
        /\ args = NoCall

NextScroll ==
    \/ ScrollInitCall \/ ScrollCall \/ ScrollPass \/ ScrollClear \/ ScrollReturn
    \/ CallerResumes

SpecScroll == InitScroll /\ [][NextScroll]_vars

-----------------------------------------------------------------------------
(* Display.flash: self.clear(), then `count` times print(msg, pos,         *)
(* duration=on, clear=True) and time.sleep(off).  The print it calls runs  *)
(* with the default fade (0b11111111,), so its `for f in fade` has one     *)
(* turn.  on and off are held in milliseconds.                             *)

FlashMessages ==
    {[kind |-> "str", data |-> <<"A">>], [kind |-> "tuple", data |-> <<119, 124>>]}

\* pos: right-aligned, left-aligned, and past the last digit of the shorter
\* displays
FlashPositions == {-1, 0, MaxPos}

FlashOns == {0, 500}

FlashOffs == {0, 500}

\* the default fade of print
DefaultFade == <<255>>

\* the clear argument flash hands to print for a message of n glyphs
FlashPrintClearDefault(n) == n > 1

FlashPrintClear(n) == TRUE

\* entry of flash: the encoding and self.clear()
FlashEnter(msg, pos, on, off, count) ==
    /\ pc = "idle"
    /\ LET enc == IF msg.kind = "str"
                  THEN Encode(msg.data, NoPadding, font, UNDEF, displays)
                  ELSE [raised |-> FALSE, value |-> msg.data]
       IN  /\ args' = [op |-> "flash", msg |-> msg, pos |-> pos, on |-> on,
                       off |-> off, count |-> count]
           /\ IF enc.raised
              THEN /\ ret' = [op |-> "flash", raised |-> TRUE]
                   /\ pc' = "returned"
                   /\ frames' = <<>>
                   /\ nwrites' = 0
                   /\ UNCHANGED <<locals, wire>>
              ELSE /\ Emit(<<ClearFrame(-1)>>)
                   /\ pc' = "flash_for"
                   /\ locals' = [msg |-> enc.value, cycle |-> 0, used_displays |-> 0,
                                 t0 |-> 0, passes |-> 0, prints |-> 0, sleeps |-> 0]
                   /\ UNCHANGED ret
    /\ UNCHANGED <<displays, font, UNDEF, scroll_encoded, scroll_cursor, now, sweep, reversal>>

FlashCall ==
    \E msg \in FlashMessages, pos \in FlashPositions, on \in FlashOns,
       off \in FlashOffs, count \in 0..MaxCount :
        FlashEnter(msg, pos, on, off, count)

\* `for _ in range(count)`: the next cycle enters print, which starts with
\* no used digit and reads t0
FlashPrintBegin ==
    /\ pc = "flash_for"
    /\ locals.cycle < args.count
    /\ \E t \in ClockReadings(0) :
          /\ now' = t
          /\ locals' = [locals EXCEPT !.used_displays = 0, !.t0 = t, !.passes = 0,
                                      !.prints = @ + 1]
    /\ pc' = "flash_while"
    /\ UNCHANGED <<displays, font, UNDEF, scroll_encoded, scroll_cursor, args, ret,
                   frames, wire, nwrites, sweep, reversal>>

\* one turn of `while True` of that print
FlashPrintPass ==
    /\ pc = "flash_while"
    /\ locals.passes < MaxLoopPasses
    /\ LET touched == PrintTouched(locals.msg, 0, args.pos, displays, DefaultFade[1])
       IN  /\ Emit(IF PassEmits(args.on) THEN touched ELSE <<>>)
           /\ \E t \in ClockReadings(locals.passes + 1) :
                 /\ now' = t
                 /\ locals' = [locals EXCEPT
                                  !.used_displays = OrMasks(@, touched),
                                  !.passes = @ + 1]
                 /\ pc' = IF LoopEnds(args.on, locals.t0, t)
                          THEN "flash_clear" ELSE "flash_while"
    /\ UNCHANGED <<displays, font, UNDEF, scroll_encoded, scroll_cursor, args, ret, sweep, reversal>>

\* the end of that print: clear is True, so the digits it used are cleared
FlashPrintEnd ==
    /\ pc = "flash_clear"
    /\ Emit(IF FlashPrintClear(Len(locals.msg)) /\ locals.used_displays # 0
            THEN <<ClearFrame(locals.used_displays)>> ELSE <<>>)
    /\ pc' = "flash_sleep"
    /\ UNCHANGED <<displays, font, UNDEF, scroll_encoded, scroll_cursor, args, ret,
                   locals, now, sweep, reversal>>

\* time.sleep(off): nothing but the clock moves, by off or more
FlashSleep ==
    /\ pc = "flash_sleep"
    /\ \E k \in {0, 1} : now' = (now + args.off + k * 500) % TicksPeriod
    /\ locals' = [locals EXCEPT !.cycle = @ + 1, !.sleeps = @ + 1]
    /\ pc' = "flash_for"
    /\ UNCHANGED <<displays, font, UNDEF, scroll_encoded, scroll_cursor, args, ret,
                   frames, wire, nwrites, sweep, reversal>>

\* the loop is over
FlashReturn ==
    /\ pc = "flash_for"
    /\ locals.cycle >= args.count
    /\ ret' = [op |-> "flash", raised |-> FALSE, msg |-> locals.msg,
               prints |-> locals.prints, sleeps |-> locals.sleeps]
    /\ pc' = "returned"
    /\ locals' = NoLocals
    /\ UNCHANGED <<displays, font, UNDEF, scroll_encoded, scroll_cursor, args,
                   frames, wire, nwrites, now, sweep, reversal>>

InitFlash ==
    \E disp \in DisplayConfigs, fnt \in {TINKER_FONT}, undef \in {"_"} :
        /\ Constructed(disp, fnt, undef)
        /\ args = NoCall

NextFlash ==
    \/ FlashCall \/ FlashPrintBegin \/ FlashPrintPass \/ FlashPrintEnd
    \/ FlashSleep \/ FlashReturn \/ CallerResumes

SpecFlash == InitFlash /\ [][NextFlash]_vars

-----------------------------------------------------------------------------
(* Display.blast: every byte of the message in turn on one digit mask.     *)
(* duration is held in milliseconds.                                       *)

BlastMessages ==
    {[kind |-> "str", data |-> t] : t \in {<<>>, <<"A">>, <<"A", "B">>}}
    \cup {[kind |-> "tuple", data |-> t] : t \in {<<119, 124>>, <<6, 91, 79>>}}

\* the masks handed as `displays`; -1, every digit, is the default
BlastMasks == {-1, 1, 2, 5, 8}

BlastDurations == {0, 500}

\* entry of blast: the encoding and the default of clear
BlastCall ==
    /\ pc = "idle"
    /\ \E msg \in BlastMessages, d \in BlastMasks, duration \in BlastDurations,
          clear \in {"None", "True", "False"} :
          LET enc == IF msg.kind = "str"
                     THEN Encode(msg.data, NoPadding, font, UNDEF, displays)
                     ELSE [raised |-> FALSE, value |-> msg.data]
          IN  /\ args' = [op |-> "blast", msg |-> msg, displays |-> d,
                          duration |-> duration, clear |-> clear]
              /\ IF enc.raised
                 THEN /\ ret' = [op |-> "blast", raised |-> TRUE]
                      /\ pc' = "returned"
                      /\ UNCHANGED locals
                 ELSE /\ pc' = "blast_for"
                      /\ locals' = [msg |-> enc.value,
                                    clear |-> IF clear = "None" THEN Len(enc.value) > 1
                                              ELSE clear = "True",
                                    i |-> 0]
                      /\ UNCHANGED ret
    /\ frames' = <<>>
    /\ nwrites' = 0
    /\ UNCHANGED <<displays, font, UNDEF, scroll_encoded, scroll_cursor, wire, now, sweep, reversal>>

\* one turn of `for i in range(len(msg))`: the byte, then the sleep
BlastByte ==
    /\ pc = "blast_for"
    /\ locals.i < Len(locals.msg)
    /\ Emit(<< <<locals.msg[locals.i + 1], args.displays>> >>)
    /\ IF args.duration > 0
       THEN \E k \in {0, 1} : now' = (now + args.duration + k * 500) % TicksPeriod
       ELSE now' = now
    /\ locals' = [locals EXCEPT !.i = @ + 1]
    /\ UNCHANGED <<displays, font, UNDEF, scroll_encoded, scroll_cursor, pc, args, ret, sweep, reversal>>

\* after the last byte: the clear of the same mask, and return
BlastReturn ==
    /\ pc = "blast_for"
    /\ locals.i >= Len(locals.msg)
    /\ Emit(IF locals.clear THEN <<ClearFrame(args.displays)>> ELSE <<>>)
    /\ ret' = [op |-> "blast", raised |-> FALSE, msg |-> locals.msg, clear |-> locals.clear]
    /\ pc' = "returned"
    /\ locals' = NoLocals
    /\ UNCHANGED <<displays, font, UNDEF, scroll_encoded, scroll_cursor, args, now, sweep, reversal>>

InitBlast ==
    \E disp \in DisplayConfigs, fnt \in {TINKER_FONT}, undef \in {"_"} :
        /\ Constructed(disp, fnt, undef)
        /\ args = NoCall

NextBlast == BlastCall \/ BlastByte \/ BlastReturn \/ CallerResumes

SpecBlast == InitBlast /\ [][NextBlast]_vars

-----------------------------------------------------------------------------
(* Display.vbars.  n is held in thousandths (n * 1000), so the tests       *)
(* n > 1.999, n > 1.499, n > 0.999 and n > 0.499 compare with 1999, 1499,  *)
(* 999 and 499; the values drawn are the multiples of a quarter.  The call *)
(* ends in print(msg, duration=duration, clear=True), with pos=-1 for a    *)
(* negative n.                                                             *)

\* the text built for n >= 0: full bars appended, then the partial bar
RECURSIVE VbarsPositive(_, _)
VbarsPositive(n, msg) ==
    IF n > 1999 THEN VbarsPositive(n - 2000, msg \o <<"#", "3", "6">>)
    ELSE IF n > 1499 THEN msg \o <<"#", "3", "2">>
    ELSE IF n > 999 THEN msg \o <<"#", "3", "0">>
    ELSE IF n > 499 THEN msg \o <<"#", "2", "0">>
    ELSE msg

\* the text built for n < 0, from -n: full bars and then the partial bar
\* put in front
RECURSIVE VbarsNegative(_, _)
VbarsNegative(n, msg) ==
    IF n > 1999 THEN VbarsNegative(n - 2000, <<"#", "3", "6">> \o msg)
    ELSE IF n > 1499 THEN <<"#", "1", "6">> \o msg
    ELSE IF n > 999 THEN <<"#", "0", "6">> \o msg
    ELSE IF n > 499 THEN <<"#", "0", "4">> \o msg
    ELSE msg

VbarsText(n) == IF n >= 0 THEN VbarsPositive(n, <<>>) ELSE VbarsNegative(-n, <<>>)

\* the pos handed to print
VbarsPosForward(n) == 0

VbarsPos(n) == IF n >= 0 THEN 0 ELSE -1

VbarsValues == {k * 250 : k \in -MaxQuarters..MaxQuarters}

\* entry of vbars up to the entry of the print it calls
VbarsEnter(n, duration) ==
    /\ pc = "idle"
    /\ LET enc == Encode(VbarsText(n), NoPadding, font, UNDEF, displays)
       IN  /\ args' = [op |-> "vbars", n |-> n,
                       msg |-> [kind |-> "str", data |-> VbarsText(n)],
                       pos |-> VbarsPos(n), duration |-> duration,
                       fade |-> DefaultFade, clear |-> "True"]
           /\ IF enc.raised
              THEN /\ ret' = [op |-> "print", raised |-> TRUE]
                   /\ pc' = "returned"
                   /\ UNCHANGED locals
              ELSE /\ pc' = "print_for"
                   /\ locals' = [msg |-> enc.value, clear |-> TRUE,
                                 used_displays |-> 0, f |-> 0, t0 |-> 0,
                                 passes |-> 0, total |-> 0]
                   /\ UNCHANGED ret
    /\ frames' = <<>>
    /\ nwrites' = 0
    /\ UNCHANGED <<displays, font, UNDEF, scroll_encoded, scroll_cursor, wire, now, sweep, reversal>>

VbarsCall ==
    \E n \in VbarsValues, duration \in PrintDurations : VbarsEnter(n, duration)

InitVbars ==
    \E disp \in DisplayConfigs, fnt \in {TINKER_FONT}, undef \in {"_"} :
        /\ Constructed(disp, fnt, undef)
        /\ args = NoCall

NextVbars == VbarsCall \/ PrintFadeStep \/ PrintPass \/ PrintReturn \/ CallerResumes

SpecVbars == InitVbars /\ [][NextVbars]_vars

-----------------------------------------------------------------------------
(* SpecLoops: the calls that run a timed refresh loop (print, vbars, flash *)
(* and scroll) on a few inputs, with durations up to the clock's period,   *)
(* under the assumption that a call that has begun keeps being run.        *)

\* no budget, one second, and as long as the clock's period
LoopDurations == {0, 1000, TicksPeriod}

LoopsPrintCall ==
    \E duration \in LoopDurations :
        PrintEnter([kind |-> "str", data |-> <<"A">>], 0, duration, <<1, 255>>, "None")

LoopsVbarsCall ==
    \E duration \in LoopDurations : VbarsEnter(1500, duration)

LoopsFlashCall ==
    \E on \in LoopDurations :
        FlashEnter([kind |-> "str", data |-> <<"A">>], 0, on, 500, 1)

LoopsScrollInitCall ==
    ScrollInitEnter([kind |-> "list", data |-> <<1, 2>>], 0)

LoopsScrollCall ==
    \E duration \in LoopDurations : ScrollEnter(1, duration)

\* the steps of a call that has begun
LoopSteps ==
    \/ PrintFadeStep \/ PrintPass \/ PrintReturn
    \/ FlashPrintBegin \/ FlashPrintPass \/ FlashPrintEnd \/ FlashSleep \/ FlashReturn
    \/ ScrollPass \/ ScrollClear \/ ScrollReturn

InitLoops ==
    /\ Constructed(DisplaysOfCount(2), TINKER_FONT, "_")
    /\ args = NoCall

NextLoops ==
    \/ LoopsPrintCall \/ LoopsVbarsCall \/ LoopsFlashCall
    \/ LoopsScrollInitCall \/ LoopsScrollCall
    \/ PrintFadeStep \/ PrintPass \/ PrintReturn
    \/ FlashPrintBegin \/ FlashPrintPass \/ FlashPrintEnd \/ FlashSleep \/ FlashReturn
    \/ ScrollPass \/ ScrollClear \/ ScrollReturn
    \/ CallerResumes

SpecLoops == InitLoops /\ [][NextLoops]_vars /\ WF_vars(LoopSteps)

-----------------------------------------------------------------------------
(* Properties of print (SpecPrint).                                        *)

PrintReturned == pc = "returned" /\ args.op = "print" /\ ~ret.raised

\* print("YO!") on the displays [8,4,2,1], pos 0, one second, no fade,
\* default clear
YoCall ==
    /\ PrintReturned
    /\ displays = <<8, 4, 2, 1>>
    /\ args.msg.kind = "str" /\ args.msg.data = <<"Y", "O", "!">>
    /\ args.pos = 0 /\ args.duration = 1000
    /\ args.fade = <<255>> /\ args.clear = "None"

\* 'Y', 'O' and '!' on the first three digits
YoPass == << <<110, 8>>, <<63, 4>>, <<130, 2>> >>

\* C2 as stated: that print call calls _update_displays exactly 3 times,
\* with masks 8, 4, 2 carrying the bytes of 'Y', 'O', '!'.
C2_Original == YoCall => frames = YoPass

\* C2 (amended): every refresh pass of that print call calls
\* _update_displays exactly 3 times, with masks 8, 4, 2 in that order
\* carrying the bytes of 'Y', 'O', '!'; the call makes one or more passes and
\* then one more call, the clear of the used digits (blank, mask 14); no call
\* addresses the fourth digit (mask bit 1).
C2_PrintYo ==
    YoCall =>
        LET n == (Len(frames) - 1) \div 3
        IN  /\ n >= 1
            /\ Len(frames) = 3 * n + 1
            /\ \A k \in 1..(3 * n) : frames[k] = YoPass[((k - 1) % 3) + 1]
            /\ frames[3 * n + 1] = <<0, 14>>
            /\ \A k \in 1..Len(frames) : frames[k][2] % 2 = 0

\* two passes and the clear
C2_Witness == YoCall /\ Len(frames) = 7 /\ frames[4] = <<110, 8>>

\* the digit positions (from 0) a print call maps its message onto
TouchedPositions ==
    {j \in 0..(Len(displays) - 1) :
        \E i \in 0..(Len(ret.msg) - 1) :
            j = IF args.pos >= 0 THEN args.pos + i
                ELSE Len(displays) - Len(ret.msg) + args.pos + i + 1}

RECURSIVE SumMasks(_)
SumMasks(js) ==
    IF js = {} THEN 0
    ELSE LET j == CHOOSE x \in js : TRUE
         IN  displays[j + 1] + SumMasks(js \ {j})

\* C8 as stated: a print call with duration <= 0 makes no _update_displays
\* call and writes no line from entry to return, whatever the message, pos,
\* fade and clear.
C8_Original ==
    (args.op = "print" /\ args.duration <= 0) => (frames = <<>> /\ nwrites = 0)

\* C8 (amended): a print call with duration <= 0 makes no _update_displays
\* call and writes no line in its refresh loop, where each fade step makes
\* exactly one pass; the one call it can make is the final clear of the
\* digits it would have used, made exactly when clear is in force (clear
\* true, or the default with more than one glyph) and a digit position was
\* touched.
C8_ZeroDurationPrint ==
    (args.op = "print" /\ args.duration <= 0) =>
        /\ pc \in {"print_for", "print_while"} => (frames = <<>> /\ nwrites = 0)
        /\ PrintReturned =>
              LET touched == IF args.fade = <<>> THEN {} ELSE TouchedPositions
                  clearing == /\ touched # {}
                              /\ \/ args.clear = "True"
                                 \/ args.clear = "None" /\ Len(ret.msg) > 1
              IN  /\ ret.passes = Len(args.fade)
                  /\ ret.used_displays = SumMasks(touched)
                  /\ frames = IF clearing THEN << <<0, SumMasks(touched)>> >> ELSE <<>>
                  /\ nwrites = IF clearing THEN 50 ELSE 0

\* print((0x77, 0x7c), duration=0) on two digits: nothing but the clear of
\* both
C8_Witness ==
    /\ PrintReturned
    /\ args.duration = 0 /\ args.clear = "None" /\ args.pos = 0
    /\ args.msg.kind = "tuple" /\ args.msg.data = <<119, 124>>
    /\ displays = <<2, 1>>
    /\ frames = << <<0, 3>> >>

-----------------------------------------------------------------------------
(* Properties of scroll_init and scroll (SpecScroll).                      *)

StoredLen == Len(scroll_encoded.data)

\* a sweep the claim C9 is about: message at least as long as the display,
\* start between 0 and len - D
SweepInRange ==
    /\ sweep.active
    /\ StoredLen >= Len(displays)
    /\ 0 <= sweep.start /\ sweep.start <= StoredLen - Len(displays)

\* C9: after scroll_init(msg, start) with L >= D and 0 <= start <= L-D,
\* repeated scroll(+1, duration=0) calls are made with the cursor at start,
\* start+1, ..., L-D in that order, each once; every call returns true
\* except the one made with the cursor at L-D, the first to return false.
C9_ForwardSweep ==
    SweepInRange =>
        /\ Len(sweep.results) = Len(sweep.visited)
        /\ \A k \in 1..Len(sweep.visited) :
              /\ sweep.visited[k] = sweep.start + (k - 1)
              /\ sweep.visited[k] <= StoredLen - Len(displays)
              /\ sweep.results[k] = (sweep.visited[k] # StoredLen - Len(displays))
        /\ (\A k \in 1..Len(sweep.results) : sweep.results[k]) =>
              scroll_cursor = sweep.start + Len(sweep.visited)

\* a sweep of three or more calls from start 1 that has returned false
C9_Witness ==
    /\ SweepInRange
    /\ sweep.start = 1
    /\ Len(sweep.visited) >= 3
    /\ ~sweep.results[Len(sweep.results)]
    /\ sweep.visited[Len(sweep.visited)] = StoredLen - Len(displays)

CursorInRange == 0 <= scroll_cursor /\ scroll_cursor < StoredLen

\* C10 as stated: in every state after scroll_init(msg, start) with any
\* integer start, and after any scroll calls, 0 <= cursor < len(message).
C10_Original == scroll_encoded.kind # "None" => CursorInRange

\* C10 (amended): scroll_init stores the cursor start (start >= 0) or
\* len - D + start + 1 (start < 0) without reducing it; once a scroll call
\* with any integer amount has returned, 0 <= cursor < len(message), and
\* that lasts until the next scroll_init.
C10_CursorAfterScroll ==
    /\ [](/\ (pc = "returned" /\ args.op = "scroll" /\ ~ret.raised) => CursorInRange
          /\ (pc = "returned" /\ args.op = "scroll_init" /\ ~ret.raised) =>
                scroll_cursor = IF args.start >= 0 THEN args.start
                                ELSE StoredLen - Len(displays) + args.start + 1)
    /\ [][(CursorInRange /\ args'.op # "scroll_init") => CursorInRange']_vars

\* a step of -2 from cursor 1 wraps to the last index
C10_Witness ==
    /\ pc = "returned" /\ args.op = "scroll" /\ ~ret.raised
    /\ args.amount = -2
    /\ ~ret.value
    /\ StoredLen >= 3
    /\ scroll_cursor = StoredLen - 1

\* the encoded message a scroll_init call was handed
InitEncoded ==
    IF args.msg.kind = "str"
    THEN Encode(args.msg.data, NoPadding, font, UNDEF, displays).value
    ELSE args.msg.data

\* C11: scroll_init with a text or a pre-encoded message (a tuple, as encode
\* returns) of encoded length below the digit count D completes without
\* failure and stores the message with blank glyphs prepended up to length
\* D; a message of length >= D is stored unchanged.
C11_ShortMessagePadded ==
    (pc = "returned" /\ args.op = "scroll_init" /\ args.msg.kind \in {"str", "tuple"}) =>
        /\ ~ret.raised
        /\ scroll_encoded.data =
              [k \in 1..(Len(displays) - Len(InitEncoded)) |-> 0] \o InitEncoded

\* C12: after a forward sweep (scroll(+1) from a cursor in [0, L-D] until it
\* first returns false), one scroll(-1, duration=0) call followed by
\* repeated scroll(-1, duration>0) calls renders the windows that start at
\* the cursors L-D, L-D-1, ..., 0 in that order, each once and none wrapping
\* around the end of the message, and the first of these rendering calls to
\* return false is the one that rendered cursor 0.
C12_ReversalProtocol ==
    reversal.phase \in {"reverse", "done"} =>
        LET n == Len(reversal.rendered)
            top == StoredLen - Len(displays)
        IN  /\ Len(reversal.results) = n
            /\ \A k \in 1..n :
                  /\ reversal.rendered[k] = top - (k - 1)
                  /\ reversal.rendered[k] >= 0
                  /\ reversal.rendered[k] + Len(displays) <= StoredLen
                  /\ reversal.results[k] = (reversal.rendered[k] # 0)
            /\ reversal.phase = "reverse" => scroll_cursor = top - n
            /\ reversal.phase = "done" => (n >= 1 /\ reversal.rendered[n] = 0)
            /\ (n >= 1 /\ pc = "returned" /\ args.op = "scroll") =>
                  \A i \in 1..Len(displays) :
                      frames[i][1] = scroll_encoded.data[reversal.rendered[n] + i]

\* a reversal over three or more windows of two or more digits, completed
C12_Witness ==
    /\ reversal.phase = "done"
    /\ Len(reversal.rendered) >= 3
    /\ Len(displays) >= 2
    /\ pc = "returned"
    /\ ~ret.value

-----------------------------------------------------------------------------
(* Properties of flash (SpecFlash).                                        *)

\* the digits print(msg, pos) maps the message of the running flash onto,
\* as one mask
FlashUsed ==
    LET js == {j \in 0..(Len(displays) - 1) :
                  \E i \in 0..(Len(locals.msg) - 1) :
                      j = IF args.pos >= 0 THEN args.pos + i
                          ELSE Len(displays) - Len(locals.msg) + args.pos + i + 1}
    IN  SumMasks(js)

\* the segment bits of the frame latched last are all unlit
LastFrameDark ==
    /\ frames # <<>>
    /\ frames[Len(frames)][1] = 0
    /\ Len(wire) = 50
    /\ \A k \in 1..8 : wire[3 * k - 2] = <<"dio", UNLIT>>

\* the frames of one cycle that made n passes: the passes, then the clear of
\* the digits used
RECURSIVE FlashPasses(_, _)
FlashPasses(pass, n) == IF n = 0 THEN <<>> ELSE pass \o FlashPasses(pass, n - 1)

\* C13: flash first clears all digits (blank segments on mask -1), then
\* makes exactly count cycles, each a print of msg for `on` (one or more
\* passes, transmitting only when on > 0), the clear of the digits that
\* print used (none when the message maps to no digit), then the sleep.  When
\* a sleep begins the frame latched last has every segment unlit, and the
\* sleep makes no _update_displays call and writes no line; also when
\* on <= 0 or no digit is used.
C13_Flash ==
    /\ [](args.op = "flash" /\ pc \notin {"idle", "returned"} =>
             /\ frames # <<>> /\ frames[1] = <<0, -1>>
             /\ pc = "flash_for" => (locals.prints = locals.cycle
                                     /\ locals.sleeps = locals.cycle)
             /\ pc \in {"flash_while", "flash_clear", "flash_sleep"} =>
                   (locals.prints = locals.cycle + 1 /\ locals.sleeps = locals.cycle)
             /\ pc = "flash_sleep" =>
                   /\ LastFrameDark
                   /\ locals.used_displays = FlashUsed
                   /\ FlashUsed # 0 => frames[Len(frames)] = <<0, FlashUsed>>)
    /\ [](pc = "returned" /\ args.op = "flash" /\ ~ret.raised =>
             (ret.prints = args.count /\ ret.sleeps = args.count))
    /\ [][pc = "flash_sleep" =>
             (frames' = frames /\ wire' = wire /\ nwrites' = nwrites)]_vars
    /\ [][pc = "flash_clear" =>
             LET pass == PrintTouched(locals.msg, 0, args.pos, displays, 255)
                 sent == IF args.on > 0 THEN FlashPasses(pass, locals.passes) ELSE <<>>
                 n == Len(frames) - Len(sent)
             IN  /\ locals.passes >= 1
                 /\ n >= 1
                 /\ \A k \in 1..Len(sent) : frames[n + k] = sent[k]
                 /\ frames' = frames \o (IF FlashUsed # 0 THEN << <<0, FlashUsed>> >>
                                         ELSE <<>>)]_vars

\* the second sleep of flash("Ab", on=0.5) on two digits begins: both prints
\* transmitted and cleared the two digits
C13_Witness ==
    /\ pc = "flash_sleep" /\ args.op = "flash"
    /\ displays = <<2, 1>> /\ args.pos = 0 /\ args.on = 500
    /\ locals.msg = <<119, 124>>
    /\ locals.cycle = 1
    /\ Len(frames) >= 7
    /\ frames[2] = <<119, 2>>
    /\ frames[Len(frames)] = <<0, 3>>

-----------------------------------------------------------------------------
(* Properties of blast (SpecBlast).                                        *)

BlastReturned == pc = "returned" /\ args.op = "blast" /\ ~ret.raised

\* C14: blast makes one _update_displays call per message byte, in message
\* order, and every call of it, the final clear included, carries the digit
\* mask handed as `displays` (-1, every digit, by default); the clear (blank
\* segments) is made exactly when clear is in force: clear true, or the
\* default with more than one byte.
C14_BlastOneMask ==
    /\ args.op = "blast" /\ pc = "blast_for" =>
          /\ Len(frames) = locals.i
          /\ \A k \in 1..Len(frames) : frames[k] = <<locals.msg[k], args.displays>>
    /\ BlastReturned =>
          LET n == Len(ret.msg)
              clearing == \/ args.clear = "True"
                          \/ args.clear = "None" /\ n > 1
          IN  /\ Len(frames) = n + (IF clearing THEN 1 ELSE 0)
              /\ \A k \in 1..n : frames[k] = <<ret.msg[k], args.displays>>
              /\ clearing => frames[n + 1] = <<0, args.displays>>
              /\ \A k \in 1..Len(frames) : frames[k][2] = args.displays
              /\ nwrites = 50 * Len(frames)

\* blast("AB") with the default mask: A's byte, B's byte, the clear, all on
\* mask -1
C14_Witness ==
    /\ BlastReturned
    /\ args.msg.kind = "str" /\ args.msg.data = <<"A", "B">>
    /\ args.displays = -1 /\ args.clear = "None"
    /\ frames = << <<119, -1>>, <<127, -1>>, <<0, -1>> >>

-----------------------------------------------------------------------------
(* Properties of vbars (SpecVbars).                                        *)

VbarsReturned == pc = "returned" /\ args.op = "vbars" /\ ~ret.raised

\* the bytes vbars renders for the value m (in thousandths)
VbarsEncoded(m) == Encode(VbarsText(m), NoPadding, font, UNDEF, displays).value

\* |n| in thousandths
VbarsMagnitude == IF args.n >= 0 THEN args.n ELSE -args.n

\* the value one half nearer to zero
VbarsPrevious == IF args.n >= 0 THEN args.n - 500 ELSE args.n + 500

\* lit-segment set of a within that of b
LitSubset(a, b) == BitAnd(a, b) = a

\* C15: for n a multiple of 0.5 the message of vbars(n) has ceil(|n|/2)
\* glyphs: floor(|n|/2) full blocks (0x36) and at most one partial glyph,
\* which is the last glyph for n >= 0 and the first glyph of the
\* right-aligned message (its last glyph on the last digit) for n < 0.  For
\* |n| in 0.5, 1, 1.5, 2 the message is one glyph, different from the
\* glyph of every other of these values of the same sign, and its lit
\* segments include those of the value one half smaller (0 rendering
\* nothing); on a single-digit display that glyph is what each pass
\* transmits.
C15_VbarsMonotone ==
    (VbarsReturned /\ VbarsMagnitude % 500 = 0) =>
        LET a == VbarsMagnitude
            msg == ret.msg
            L == Len(ret.msg)
            D == Len(displays)
            full == a \div 2000
        IN  /\ msg = VbarsEncoded(args.n)
            /\ L = (a + 1999) \div 2000
            /\ L - full \in {0, 1}
            /\ args.n >= 0 =>
                  /\ \A k \in 1..full : msg[k] = 54
                  /\ L > full => msg[L] \in {32, 48, 50}
                  /\ args.duration > 0 =>
                        \A k \in 1..(IF L < D THEN L ELSE D) :
                            frames[k] = <<msg[k], displays[k]>>
            /\ args.n < 0 =>
                  /\ \A k \in (L - full + 1)..L : msg[k] = 54
                  /\ L > full => msg[1] \in {4, 6, 22}
                  /\ (args.duration > 0 /\ L <= D) =>
                        \A k \in 1..L : frames[k] = <<msg[k], displays[D - L + k]>>
            /\ a = 0 => (msg = <<>> /\ frames = <<>>)
            /\ (0 < a /\ a <= 2000) =>
                  /\ L = 1
                  /\ \A m \in {500, 1000, 1500, 2000} \ {a} :
                        VbarsEncoded(IF args.n >= 0 THEN m ELSE -m) # msg
                  /\ a = 500 => VbarsEncoded(VbarsPrevious) = <<>>
                  /\ a > 500 =>
                        /\ Len(VbarsEncoded(VbarsPrevious)) = 1
                        /\ LitSubset(VbarsEncoded(VbarsPrevious)[1], msg[1])
                        /\ VbarsEncoded(VbarsPrevious)[1] # msg[1]
                  /\ (D = 1 /\ args.duration > 0) =>
                        /\ frames[1] = <<msg[1], displays[1]>>
                        /\ frames[Len(frames)] = <<0, displays[1]>>

\* vbars(-2.5) on three digits: the partial glyph on the second digit, the
\* full block on the third
C15_Witness ==
    /\ VbarsReturned
    /\ args.n = -2500 /\ args.duration = 1000
    /\ displays = <<4, 2, 1>>
    /\ ret.msg = <<4, 54>>
    /\ frames[1] = <<4, 2>> /\ frames[2] = <<54, 1>>

-----------------------------------------------------------------------------
(* Position assignment in print (SpecPrint).                               *)

\* j(i): the digit position of message index i (both from 0)
DigitOf(i) ==
    IF args.pos >= 0 THEN args.pos + i
    ELSE Len(displays) - Len(locals.msg) + args.pos + i + 1

\* the message indices whose digit position is a digit of the display
MappedIndices ==
    {i \in 0..(Len(locals.msg) - 1) : 0 <= DigitOf(i) /\ DigitOf(i) < Len(displays)}

\* the k-th of them in increasing order
MappedIndex(k) ==
    CHOOSE i \in MappedIndices : Cardinality({h \in MappedIndices : h < i}) = k - 1

\* the frames of one pass with the fade mask f
ExpectedPass(f) ==
    [k \in 1..Cardinality(MappedIndices) |->
        <<BitAnd(locals.msg[MappedIndex(k) + 1], f), displays[DigitOf(MappedIndex(k)) + 1]>>]

\* C16: with a positive duration every refresh pass of print transmits
\* exactly the frames (msg[i] AND f, DigitMask[j(i)]) of the indices i with
\* j(i) in [0, D), in increasing order of i, where j(i) = pos + i for
\* pos >= 0 and j(i) = D - L + pos + i + 1 for pos < 0; indices mapped
\* outside [0, D) are skipped without error, and in reverse mode an index
\* mapped below 0 does not keep later indices of the pass from being sent.
C16_PositionAssignment ==
    [][(pc = "print_while" /\ args.op = "print" /\ args.duration > 0) =>
          /\ frames' = frames \o ExpectedPass(args.fade[locals.f])
          /\ pc' \in {"print_while", "print_for"}]_vars

\* print("12345", pos=-1) on three digits: '3', '4', '5' on the digits, the
\* two indices mapped below 0 skipped
C16_Witness ==
    /\ PrintReturned
    /\ displays = <<4, 2, 1>>
    /\ args.pos = -1 /\ args.duration = 1000 /\ args.fade = <<255>>
    /\ Len(ret.msg) = 5
    /\ Len(frames) >= 3
    /\ frames[1] = <<79, 4>> /\ frames[2] = <<102, 2>> /\ frames[3] = <<109, 1>>

\* the bytes of the window that starts at the stored cursor
WindowByte(i) == scroll_encoded.data[((scroll_cursor + i) % StoredLen) + 1]

\* C17: one scroll(amount, duration) call entered with cursor c on a message
\* of length L and D digits: every refresh pass walks the window
\* msg[(c+i) mod L], i = 0..D-1, and transmits these bytes in this order
\* when duration > 0 (a non-positive duration makes one pass without a
\* physical write); then the call clears all digits (blank on mask -1); the
\* cursor stays c up to and including the clear and only then becomes
\* (c + amount) mod L, in both outcomes.  The call returns true exactly when
\* 0 <= c + amount and c + amount + D <= L; then the new cursor is
\* c + amount and the window at it is the slice msg[c+amount .. c+amount+D)
\* without wraparound.
C17_ScrollStep ==
    /\ [][pc = "scroll_while" =>
             LET D == Len(displays)
                 n == Len(frames)
             IN  /\ scroll_cursor' = scroll_cursor
                 /\ args.duration > 0 =>
                       /\ Len(frames') = n + D
                       /\ \A k \in 1..n : frames'[k] = frames[k]
                       /\ \A i \in 0..(D - 1) : frames'[n + i + 1][1] = WindowByte(i)
                 /\ ~(args.duration > 0) => (frames' = frames /\ pc' = "scroll_after")]_vars
    /\ [][pc = "scroll_after" =>
             /\ frames' = Append(frames, <<0, -1>>)
             /\ scroll_cursor' = scroll_cursor
             /\ pc' = "scroll_test"]_vars
    /\ [][pc = "scroll_test" =>
             LET c == scroll_cursor
                 a == args.amount
                 D == Len(displays)
                 L == StoredLen
             IN  /\ pc' = "returned" /\ ~ret'.raised
                 /\ frames' = frames
                 /\ ret'.value = (0 <= c + a /\ c + a + D <= L)
                 /\ scroll_cursor' = (c + a) % L
                 /\ ret'.value =>
                       /\ scroll_cursor' = c + a
                       /\ \A i \in 0..(D - 1) :
                             (scroll_cursor' + i) % L = c + a + i]_vars

\* scroll(+1, 0.5) entered with cursor 1 on four bytes and two digits: the
\* window 2, 3, the clear, then cursor 2 and true
C17_Witness ==
    /\ pc = "returned" /\ args.op = "scroll" /\ ~ret.raised
    /\ ret.value /\ args.amount = 1 /\ args.duration = 500
    /\ Len(displays) = 2 /\ StoredLen = 4 /\ scroll_cursor = 2
    /\ Len(frames) >= 3
    /\ frames[1][1] = 2 /\ frames[2][1] = 3
    /\ frames[Len(frames)] = <<0, -1>>

-----------------------------------------------------------------------------
(* The refresh loops and the clock (SpecPrint, SpecScroll, SpecLoops).     *)

\* C18: in the refresh loops of print and scroll with a positive duration,
\* a clock reading taken after a pass that is smaller than the loop's start
\* reading t0 does not end the loop: the loop stays in its `while` and makes
\* at least one further pass.
C18_WrapKeepsGoing ==
    [][(pc \in {"print_while", "scroll_while"} /\ args.duration > 0
        /\ now' < locals.t0) => pc' = pc]_vars

\* a call is in the `while True` of a refresh loop
InLoop == pc \in {"print_while", "flash_while", "scroll_while"}

\* a call has begun and not returned
InCall == pc \notin {"idle", "returned"}

\* the budget of the running loop, in milliseconds
LoopBudget == IF args.op = "flash" THEN args.on ELSE args.duration

\* the loop ends after one pass when the budget is not positive, and
\* otherwise at the first reading t with t - t0 >= budget or t < t0
LoopEndsAsStated ==
    [][InLoop =>
          /\ ~(LoopBudget > 0) => (pc' # pc /\ locals'.passes = 1)
          /\ LoopBudget > 0 =>
                ((pc' # pc) <=> (now' - locals.t0 >= LoopBudget \/ now' < locals.t0))]_vars

\* C19: every timed refresh loop ends: after exactly one pass when
\* duration <= 0, and otherwise at the first reading t with
\* t - t0 >= duration*1000 or t < t0; hence, under a clock that keeps
\* advancing, every print, vbars, flash and scroll call eventually returns,
\* having run each fade step for its budget.
C19_LoopsTerminate ==
    /\ LoopEndsAsStated
    /\ InCall ~> (pc = "returned")
    /\ [][(InLoop /\ LoopBudget > 0 /\ pc' # pc) => now' - locals.t0 >= LoopBudget]_vars

\* C20: the frame scroll transmits for window index i (0 <= i < D) carries
\* the digit mask configured for digit position i, the mask print uses for
\* that position, whether the driver was constructed with a digit count or
\* with an explicit sequence of masks.
C20_ScrollUsesConfiguredMasks ==
    [][(pc = "scroll_while" /\ args.duration > 0) =>
          /\ Len(frames') = Len(frames) + Len(displays)
          /\ \A i \in 1..Len(displays) :
                frames'[Len(frames) + i][2] = displays[i]]_vars

=============================================================================
